---------------------------- MODULE Spec2Model ----------------------------
(***************************************************************************)
(* A model of robdd.cpp: the hash-consed node store (makeNode), the        *)
(* variable order registry, apply / bddNot, the netlist evaluator          *)
(* (ROBDDBuilder), the rebuild-based sifter and main.                      *)
(*                                                                         *)
(* A BDDNode* is modelled by the id of the node it points to (the static   *)
(* counter gives every allocated node its own id), nullptr by NULL.        *)
(* Positions and ranks are 0-based as in the C++; a vector v is a TLA+     *)
(* sequence and v[k] of the code is v[k + 1] here.                         *)
(***************************************************************************)
EXTENDS Integers, Sequences, FiniteSets, TLC

VARIABLES
    code,             \* the netlist text handed to main, as parse reads it
    ub,               \* what the build makes of the ill-formed iterator range (l.321)
    pc,               \* position of the program
    ret,              \* the caller a running buildROBDD returns to
    heap,             \* the live BDDNode objects, by id
    uniqueTable,      \* map (variable, low id, high id) -> node
    nodeTable,        \* map id -> node
    counter,          \* the static id counter of BDDNode's constructor
    BDD_ZERO,         \* the terminal nodes of the current context
    BDD_ONE,
    variableOrder,    \* vector<string>
    variableIndex,    \* map<string,int>
    signalBDDs,       \* the parser's signal environment
    processedSignals, \* processGates' set of bound signals
    gi,               \* processGates' position in the gate list
    progress,         \* processGates' progress flag
    root,             \* what the last buildROBDD returned
    si,               \* siftVariables' i
    sj,               \* siftVariables' j
    svar,             \* siftVariables' var
    bestPosition,     \* siftVariables' bestPosition
    minSize,          \* siftVariables' minSize
    originalOrder,    \* siftVariables' originalOrder
    sifted,           \* observer: how many positions the sifter has processed
    rebuilds,         \* observer: how many rebuildROBDD calls have returned
    initialSize       \* observer: computeBDDSize() after the first build of the run

vars == <<code, ub, pc, ret, heap, uniqueTable, nodeTable, counter, BDD_ZERO,
          BDD_ONE, variableOrder, variableIndex, signalBDDs, processedSignals,
          gi, progress, root, si, sj, svar, bestPosition, minSize,
          originalOrder, sifted, rebuilds, initialSize>>

NULL == -1

Empty == [x \in {} |-> NULL]

Put(m, k, v) == (k :> v) @@ m

Range(s) == {s[k] : k \in 1..Len(s)}

-----------------------------------------------------------------------------
(* The context: node store, unique table, terminals and variable order.    *)

Ctx ==
    [heap |-> heap, uniqueTable |-> uniqueTable, nodeTable |-> nodeTable,
     counter |-> counter, zero |-> BDD_ZERO, one |-> BDD_ONE,
     variableOrder |-> variableOrder, variableIndex |-> variableIndex]

SetCtx(C) ==
    /\ heap' = C.heap
    /\ uniqueTable' = C.uniqueTable
    /\ nodeTable' = C.nodeTable
    /\ counter' = C.counter
    /\ BDD_ZERO' = C.zero
    /\ BDD_ONE' = C.one
    /\ variableOrder' = C.variableOrder
    /\ variableIndex' = C.variableIndex

\* new BDDNode(var, l, h): the node gets the counter's value as its id.
NewNode(C, var, l, h) ==
    [C EXCEPT !.heap = Put(C.heap, C.counter,
                           [variable |-> var, low |-> l, high |-> h]),
              !.counter = C.counter + 1]

\* Faulty variant of UniqueHit, for sensitivity of the properties: the unique table is never consulted.
UniqueHitNever(C, key) == FALSE

\* The lookup of makeNode's key in the unique table.
UniqueHit(C, key) == key \in DOMAIN C.uniqueTable

\* Faulty variant of makeNode, for sensitivity of the properties: the test for equal children is missing.
makeNodeNoReduce(C, var, low, high) ==
    LET key == <<var, low, high>>
    IN  IF UniqueHit(C, key)
        THEN [C |-> C, n |-> C.uniqueTable[key]]
        ELSE LET D == NewNode(C, var, low, high)
                 node == C.counter
             IN  [C |-> [D EXCEPT !.uniqueTable = Put(D.uniqueTable, key, node),
                                  !.nodeTable = Put(D.nodeTable, node, node)],
                  n |-> node]

makeNode(C, var, low, high) ==
    IF low = high THEN [C |-> C, n |-> low]
    ELSE LET key == <<var, low, high>>
         IN  IF UniqueHit(C, key)
             THEN [C |-> C, n |-> C.uniqueTable[key]]
             ELSE LET D == NewNode(C, var, low, high)
                      node == C.counter
                  IN  [C |-> [D EXCEPT !.uniqueTable = Put(D.uniqueTable, key, node),
                                       !.nodeTable = Put(D.nodeTable, node, node)],
                       n |-> node]

setVariableOrder(C, vs) ==
    [C EXCEPT !.variableOrder = vs,
              !.variableIndex =
                  [v \in Range(vs) |->
                      CHOOSE k \in 0..(Len(vs) - 1) :
                          /\ vs[k + 1] = v
                          /\ \A m \in 0..(Len(vs) - 1) : vs[m + 1] = v => m <= k]]

getVariableIndex(C, var) ==
    IF var \in DOMAIN C.variableIndex THEN C.variableIndex[var]
    ELSE Len(C.variableOrder)

computeBDDSize(C) == Cardinality(DOMAIN C.nodeTable)

OpFunc(op, a, b) ==
    CASE op = "and"  -> a /\ b
      [] op = "or"   -> a \/ b
      [] op = "xor"  -> a # b
      [] op = "nand" -> ~(a /\ b)
      [] op = "nor"  -> ~(a \/ b)

isTerminal(C, n) == n = C.zero \/ n = C.one

valueOf(C, n) == n = C.one

\* A call that dereferences nullptr traps: no node comes back.
Trap(C) == [C |-> C, n |-> NULL, ok |-> FALSE]

\* Faulty variant of SplitVar, for sensitivity of the properties: the second branch names f's variable too.
SplitVarAlwaysF(f_index, g_index, f_var, g_var) == f_var

\* The variable apply splits on (l.99-111).
SplitVar(f_index, g_index, f_var, g_var) ==
    IF f_index < g_index THEN f_var
    ELSE IF g_index < f_index THEN g_var
    ELSE f_var

RECURSIVE apply(_, _, _, _)
apply(C, f, g, op) ==
    IF f = NULL \/ g = NULL THEN Trap(C)
    ELSE IF isTerminal(C, f) /\ isTerminal(C, g)
    THEN [C |-> C,
          n |-> IF OpFunc(op, valueOf(C, f), valueOf(C, g)) THEN C.one ELSE C.zero,
          ok |-> TRUE]
    ELSE
      LET f_var == IF isTerminal(C, f) THEN "" ELSE C.heap[f].variable
          g_var == IF isTerminal(C, g) THEN "" ELSE C.heap[g].variable
          f_index == IF f_var = "" THEN Len(C.variableOrder)
                     ELSE getVariableIndex(C, f_var)
          g_index == IF g_var = "" THEN Len(C.variableOrder)
                     ELSE getVariableIndex(C, g_var)
          var == SplitVar(f_index, g_index, f_var, g_var)
          f_low  == IF g_index < f_index THEN f ELSE C.heap[f].low
          f_high == IF g_index < f_index THEN f ELSE C.heap[f].high
          g_low  == IF f_index < g_index THEN g ELSE C.heap[g].low
          g_high == IF f_index < g_index THEN g ELSE C.heap[g].high
          lo == apply(C, f_low, g_low, op)
      IN  IF ~lo.ok THEN Trap(lo.C)
          ELSE LET hi == apply(lo.C, f_high, g_high, op)
               IN  IF ~hi.ok THEN Trap(hi.C)
                   ELSE LET r == makeNode(hi.C, var, lo.n, hi.n)
                        IN  [C |-> r.C, n |-> r.n, ok |-> TRUE]

RECURSIVE bddNot(_, _)
bddNot(C, f) ==
    IF isTerminal(C, f)
    THEN [C |-> C, n |-> IF f = C.one THEN C.zero ELSE C.one]
    ELSE LET lo == bddNot(C, C.heap[f].low)
             hi == bddNot(lo.C, C.heap[f].high)
         IN  makeNode(hi.C, C.heap[f].variable, lo.n, hi.n)


-----------------------------------------------------------------------------
(* The netlist evaluator: VerilogParser's environment and ROBDDBuilder.    *)

\* Faulty variant of FreshContext, for sensitivity of the properties: the node table is not cleared.
FreshContextKeepNodes(C) ==
    LET z == NewNode([C EXCEPT !.uniqueTable = Empty], "0", NULL, NULL)
        o == NewNode(z, "1", NULL, NULL)
    IN  [o EXCEPT !.zero = C.counter, !.one = C.counter + 1]

\* uniqueTable.clear(); nodeTable.clear(); new terminals (l.392-397, and
\* the same four statements at l.488-491 and l.497-500 of main).
FreshContext(C) ==
    LET z == NewNode([C EXCEPT !.uniqueTable = Empty, !.nodeTable = Empty],
                     "0", NULL, NULL)
        o == NewNode(z, "1", NULL, NULL)
    IN  [o EXCEPT !.zero = C.counter, !.one = C.counter + 1]

getSignalBDD(env, signal) ==
    IF signal \in DOMAIN env THEN env[signal] ELSE NULL

\* initializeInputBDDs over inputs[k..], threading the store.
RECURSIVE initializeInputBDDs(_, _, _, _)
initializeInputBDDs(C, env, inputs, k) ==
    IF k > Len(inputs) THEN [C |-> C, env |-> env]
    ELSE LET r == makeNode(C, inputs[k], C.zero, C.one)
         IN  initializeInputBDDs(r.C, Put(env, inputs[k], r.n), inputs, k + 1)

\* The order parse installs (l.171).
ParsedOrder(inputs, current) == inputs

\* parse, after tokenisation: the order is set and the inputs are bound.
parse(C, text) ==
    initializeInputBDDs(setVariableOrder(C, ParsedOrder(text.inputs, C.variableOrder)),
                        Empty, text.inputs, 1)

\* The operand evaluateGate passes for the first input of a binary gate.
FirstOperand(env, name) == getSignalBDD(env, name)

\* The operand evaluateGate passes for a later input (in ? in : BDD_ZERO).
NextOperand(C, env, name) ==
    IF getSignalBDD(env, name) # NULL THEN getSignalBDD(env, name) ELSE C.zero

\* The loop of one binary gate kind over inputs[k..] (l.357-360).
RECURSIVE FoldGate(_, _, _, _, _, _)
FoldGate(C, env, result, inputs, k, op) ==
    IF k > Len(inputs) THEN [C |-> C, n |-> result, ok |-> TRUE]
    ELSE LET r == apply(C, result, NextOperand(C, env, inputs[k]), op)
         IN  IF ~r.ok THEN r
             ELSE FoldGate(r.C, env, r.n, inputs, k + 1, op)

BinaryKinds == {"and", "or", "xor", "nand"}

evaluateGate(C, env, gate) ==
    IF gate.inputs = <<>> THEN [C |-> C, n |-> C.zero, ok |-> TRUE]
    ELSE IF gate.type = "not"
    THEN LET in == getSignalBDD(env, gate.inputs[1])
         IN  IF in # NULL
             THEN LET r == bddNot(C, in) IN [C |-> r.C, n |-> r.n, ok |-> TRUE]
             ELSE [C |-> C, n |-> C.zero, ok |-> TRUE]
    ELSE IF gate.type \in BinaryKinds
    THEN FoldGate(C, env, FirstOperand(env, gate.inputs[1]), gate.inputs, 2, gate.type)
    ELSE [C |-> C, n |-> C.zero, ok |-> TRUE]

\* The inputs of a gate that the readiness loop finds unprocessed (l.320).
Unprocessed(gate, processed) ==
    {k \in 1..Len(gate.inputs) : gate.inputs[k] \notin processed}

\* l.319-325.  For an unprocessed name the loop evaluates
\*   find(getInputs().begin(), getInputs().end(), in) == getInputs().end()
\* on three different temporaries: an ill-formed range, undefined behaviour
\* unless the vectors are empty (all iterators are then the null pointer
\* and the name is not found).  The outcome is the build's: "notfound"
\* (the comparison is true, the gate waits), "found" (it is false, the gate
\* is taken as ready) or "trap" (the walk leaves the heap).
allInputsReady(gate, processed, inputs, outcome) ==
    IF Unprocessed(gate, processed) = {} THEN "ready"
    ELSE IF inputs = <<>> THEN "wait"
    ELSE CASE outcome = "found"    -> "ready"
           [] outcome = "notfound" -> "wait"
           [] outcome = "trap"     -> "trap"

\* The while condition of processGates (l.314).
MoreToProcess(processed, text) ==
    Cardinality(processed) < Len(text.gates) + Len(text.inputs)

-----------------------------------------------------------------------------
(* The netlists the program is run on.                                     *)

NumInputs == 2
MaxGates == 2
MaxFanIn == 2

InputNames == <<"a", "b", "c", "d">>
Wires == {"t", "y"}
Kinds == {"not", "and", "or", "xor", "nand", "nor"}
Outcomes == {"found", "notfound", "trap"}

SeqsUpTo(S, n) == UNION {[1..k -> S] : k \in 0..n}

InputLists == {SubSeq(InputNames, 1, n) : n \in 0..NumInputs}

GatesOver(inputs) ==
    [type : Kinds, output : Wires,
     inputs : SeqsUpTo(Range(inputs) \cup Wires, MaxFanIn)]

NetlistsOf(maxGates) ==
    UNION {[inputs : {ins}, outputs : {<<>>, <<"y">>},
            gates : SeqsUpTo(GatesOver(ins), maxGates)] : ins \in InputLists}

Netlists == NetlistsOf(MaxGates)

\* For the sifter: the one-gate netlists, and over SiftInputs inputs the
\* two-level netlists t = k1(x1, x2), y = k2(z1, z2), whose size depends on
\* the variable order.
SiftInputs == 3

TwoLevel ==
    LET ins == SubSeq(InputNames, 1, SiftInputs)
    IN  {[inputs |-> ins, outputs |-> <<"y">>,
          gates |-> <<[type |-> k1, output |-> "t", inputs |-> x],
                      [type |-> k2, output |-> "y", inputs |-> z]>>] :
            k1 \in {"and", "or", "xor", "nand"}, k2 \in {"and", "or", "xor", "nand"},
            x \in [1..2 -> Range(ins)], z \in [1..2 -> Range(ins) \cup {"t"}]}

SiftNetlists == NetlistsOf(1) \cup TwoLevel

-----------------------------------------------------------------------------
(* The program: main, and buildROBDD as the steps of processGates.         *)

\* The state before main runs: no node, no order, counter 0.
Blank ==
    /\ ub \in Outcomes
    /\ ret = "none"
    /\ heap = Empty /\ uniqueTable = Empty /\ nodeTable = Empty
    /\ counter = 0 /\ BDD_ZERO = NULL /\ BDD_ONE = NULL
    /\ variableOrder = <<>> /\ variableIndex = Empty
    /\ signalBDDs = Empty /\ processedSignals = {}
    /\ gi = 0 /\ progress = FALSE /\ root = NULL
    /\ si = 0 /\ sj = 0 /\ svar = "" /\ bestPosition = 0 /\ minSize = 0
    /\ originalOrder = <<>>
    /\ sifted = 0 /\ rebuilds = 0 /\ initialSize = NULL

Init ==
    /\ code \in Netlists
    /\ pc = "main"
    /\ Blank

buildVars == <<signalBDDs, processedSignals, gi, progress, root>>
siftVars == <<si, sj, svar, bestPosition, minSize, originalOrder, sifted>>

\* main, l.488-491.
MainInit ==
    /\ pc = "main"
    /\ SetCtx(FreshContext(Ctx))
    /\ pc' = "siftVariables"
    /\ UNCHANGED <<code, ub, ret, buildVars, siftVars, rebuilds, initialSize>>

\* buildROBDD, l.299: a new builder's parser reads the text.
Parse ==
    /\ pc = "parse"
    /\ LET r == parse(Ctx, code)
       IN  /\ SetCtx(r.C)
           /\ signalBDDs' = r.env
    /\ pc' = "processGates"
    /\ UNCHANGED <<code, ub, ret, processedSignals, gi, progress, root, siftVars,
                   rebuilds, initialSize>>

\* processGates, l.309-314: the inputs are processed, the first test of the loop.
ProcessGates ==
    /\ pc = "processGates"
    /\ processedSignals' = Range(code.inputs)
    /\ gi' = 0
    /\ progress' = FALSE
    /\ pc' = IF MoreToProcess(Range(code.inputs), code) THEN "pass" ELSE "return"
    /\ UNCHANGED <<code, ub, ret, heap, uniqueTable, nodeTable, counter, BDD_ZERO,
                   BDD_ONE, variableOrder, variableIndex, signalBDDs, root,
                   siftVars, rebuilds, initialSize>>

\* One iteration of the for loop of a pass, l.317-333.
PassGate ==
    /\ pc = "pass"
    /\ gi < Len(code.gates)
    /\ LET gate == code.gates[gi + 1]
           ready == allInputsReady(gate, processedSignals, code.inputs, ub)
       IN  IF ready = "trap"
           THEN /\ pc' = "crashed"
                /\ UNCHANGED <<heap, uniqueTable, nodeTable, counter, BDD_ZERO,
                               BDD_ONE, variableOrder, variableIndex, signalBDDs,
                               processedSignals, gi, progress>>
           ELSE IF gate.output \notin processedSignals /\ ready = "ready"
           THEN LET r == evaluateGate(Ctx, signalBDDs, gate)
                IN  /\ SetCtx(r.C)
                    /\ IF r.ok
                       THEN /\ signalBDDs' = Put(signalBDDs, gate.output, r.n)
                            /\ processedSignals' = processedSignals \cup {gate.output}
                            /\ progress' = TRUE
                            /\ gi' = gi + 1
                            /\ pc' = "pass"
                       ELSE /\ pc' = "crashed"
                            /\ UNCHANGED <<signalBDDs, processedSignals, progress, gi>>
           ELSE /\ gi' = gi + 1
                /\ pc' = "pass"
                /\ UNCHANGED <<heap, uniqueTable, nodeTable, counter, BDD_ZERO,
                               BDD_ONE, variableOrder, variableIndex, signalBDDs,
                               processedSignals, progress>>
    /\ UNCHANGED <<code, ub, ret, root, siftVars, rebuilds, initialSize>>

\* The end of a pass, l.335-346: the fallback, another pass, or the end.
PassEnd ==
    /\ pc = "pass"
    /\ gi = Len(code.gates)
    /\ gi' = 0
    /\ progress' = FALSE
    /\ pc' = IF ~progress THEN "fallback"
             ELSE IF MoreToProcess(processedSignals, code) THEN "pass"
             ELSE "return"
    /\ UNCHANGED <<code, ub, ret, heap, uniqueTable, nodeTable, counter, BDD_ZERO,
                   BDD_ONE, variableOrder, variableIndex, signalBDDs,
                   processedSignals, root, siftVars, rebuilds, initialSize>>

\* One iteration of the last-resort loop, l.337-343, and the break after it.
FallbackGate ==
    /\ pc = "fallback"
    /\ IF gi < Len(code.gates)
       THEN LET gate == code.gates[gi + 1]
            IN  IF gate.output \notin processedSignals
                THEN LET r == evaluateGate(Ctx, signalBDDs, gate)
                     IN  /\ SetCtx(r.C)
                         /\ IF r.ok
                            THEN /\ signalBDDs' = Put(signalBDDs, gate.output, r.n)
                                 /\ processedSignals' =
                                        processedSignals \cup {gate.output}
                                 /\ gi' = gi + 1
                                 /\ pc' = "fallback"
                            ELSE /\ pc' = "crashed"
                                 /\ UNCHANGED <<signalBDDs, processedSignals, gi>>
                ELSE /\ gi' = gi + 1
                     /\ pc' = "fallback"
                     /\ UNCHANGED <<heap, uniqueTable, nodeTable, counter, BDD_ZERO,
                                    BDD_ONE, variableOrder, variableIndex,
                                    signalBDDs, processedSignals>>
       ELSE /\ pc' = "return"
            /\ UNCHANGED <<heap, uniqueTable, nodeTable, counter, BDD_ZERO, BDD_ONE,
                           variableOrder, variableIndex, signalBDDs,
                           processedSignals, gi>>
    /\ UNCHANGED <<code, ub, ret, progress, root, siftVars, rebuilds, initialSize>>

\* buildROBDD, l.301-302: the first declared output's binding, or BDD_ZERO.
BuildReturn ==
    /\ pc = "return"
    /\ root' = IF code.outputs # <<>> THEN getSignalBDD(signalBDDs, code.outputs[1])
               ELSE BDD_ZERO
    /\ pc' = ret
    /\ rebuilds' = IF ret \in {"done", "siftVariables"} THEN rebuilds ELSE rebuilds + 1
    /\ initialSize' = IF initialSize = NULL THEN computeBDDSize(Ctx) ELSE initialSize
    /\ UNCHANGED <<code, ub, ret, heap, uniqueTable, nodeTable, counter, BDD_ZERO,
                   BDD_ONE, variableOrder, variableIndex, signalBDDs,
                   processedSignals, gi, progress, siftVars>>

\* main, l.497-503: a fresh context and the final build.
MainFinal ==
    /\ pc = "final"
    /\ SetCtx(FreshContext(Ctx))
    /\ pc' = "parse"
    /\ ret' = "done"
    /\ UNCHANGED <<code, ub, buildVars, siftVars, rebuilds, initialSize>>

-----------------------------------------------------------------------------
(* siftVariables, l.404-454.  A rebuildROBDD call is FreshContext followed  *)
(* by the steps of buildROBDD, which return to the position in ret.        *)

Swap(s, p, q) == [s EXCEPT ![p] = s[q], ![q] = s[p]]

\* variableOrder.erase(begin + p)
Erase(s, p) == SubSeq(s, 1, p) \o SubSeq(s, p + 2, Len(s))

\* variableOrder.insert(begin + p, v)
Insert(s, p, v) == SubSeq(s, 1, p) \o <<v>> \o SubSeq(s, p + 1, Len(s))

\* rebuildROBDD called with the order o in place; the build returns to r.
Rebuild(o, r) ==
    /\ SetCtx(FreshContext([Ctx EXCEPT !.variableOrder = o]))
    /\ pc' = "parse"
    /\ ret' = r

ctxVars == <<heap, uniqueTable, nodeTable, counter, BDD_ZERO, BDD_ONE,
             variableOrder, variableIndex>>

\* l.405-410: the empty-order return, or the initial build.
SiftVariables ==
    /\ pc = "siftVariables"
    /\ IF variableOrder = <<>>
       THEN /\ pc' = "final"
            /\ UNCHANGED <<ret, ctxVars>>
       ELSE Rebuild(variableOrder, "sift_for")
    /\ si' = 0
    /\ UNCHANGED <<code, ub, buildVars, sj, svar, bestPosition, minSize,
                   originalOrder, sifted, rebuilds, initialSize>>

\* l.410-415: the loop test and the locals of one position.
SiftFor ==
    /\ pc = "sift_for"
    /\ IF si < Len(variableOrder)
       THEN /\ svar' = variableOrder[si + 1]
            /\ bestPosition' = si
            /\ minSize' = computeBDDSize(Ctx)
            /\ originalOrder' = variableOrder
            /\ sj' = si - 1
            /\ pc' = "sift_up"
       ELSE /\ pc' = "final"
            /\ UNCHANGED <<svar, bestPosition, minSize, originalOrder, sj>>
    /\ UNCHANGED <<code, ub, ret, ctxVars, buildVars, si, sifted, rebuilds,
                   initialSize>>

\* l.418-420 and l.429: one upward swap and its rebuild, or the restore.
SiftUp ==
    /\ pc = "sift_up"
    /\ IF sj >= 0
       THEN /\ Rebuild(Swap(variableOrder, sj + 1, sj + 2), "sift_up_measure")
            /\ sj' = sj
       ELSE /\ variableOrder' = originalOrder
            /\ sj' = si + 1
            /\ pc' = "sift_down"
            /\ UNCHANGED <<ret, heap, uniqueTable, nodeTable, counter, BDD_ZERO,
                           BDD_ONE, variableIndex>>
    /\ UNCHANGED <<code, ub, buildVars, si, svar, bestPosition, minSize,
                   originalOrder, sifted, rebuilds, initialSize>>

\* l.421-425 (and l.435-439): the size after a rebuild against the best so far.
Measure(next, back) ==
    /\ IF computeBDDSize(Ctx) < minSize
       THEN /\ minSize' = computeBDDSize(Ctx)
            /\ bestPosition' = sj
       ELSE UNCHANGED <<minSize, bestPosition>>
    /\ sj' = next
    /\ pc' = back
    /\ UNCHANGED <<code, ub, ret, ctxVars, buildVars, si, svar, originalOrder,
                   sifted, rebuilds, initialSize>>

SiftUpMeasure ==
    /\ pc = "sift_up_measure"
    /\ Measure(sj - 1, "sift_up")

\* l.432-434: one downward swap and its rebuild, or the end of the sweep.
SiftDown ==
    /\ pc = "sift_down"
    /\ IF sj < Len(variableOrder)
       THEN Rebuild(Swap(variableOrder, sj + 1, sj), "sift_down_measure")
       ELSE /\ pc' = "sift_place"
            /\ UNCHANGED <<ret, ctxVars>>
    /\ UNCHANGED <<code, ub, buildVars, siftVars, rebuilds, initialSize>>

SiftDownMeasure ==
    /\ pc = "sift_down_measure"
    /\ Measure(sj + 1, "sift_down")

\* l.444-452 and the ++i of l.410: the variable is placed, or the order restored.
SiftPlace ==
    /\ pc = "sift_place"
    /\ IF bestPosition # si
       THEN Rebuild(Insert(Erase(variableOrder, si), bestPosition, svar), "sift_for")
       ELSE /\ variableOrder' = originalOrder
            /\ pc' = "sift_for"
            /\ UNCHANGED <<ret, heap, uniqueTable, nodeTable, counter, BDD_ZERO,
                           BDD_ONE, variableIndex>>
    /\ si' = si + 1
    /\ sifted' = sifted + 1
    /\ UNCHANGED <<code, ub, buildVars, sj, svar, bestPosition, minSize,
                   originalOrder, rebuilds, initialSize>>

-----------------------------------------------------------------------------
(* The program as shipped.                                                 *)

Build == Parse \/ ProcessGates \/ PassGate \/ PassEnd \/ FallbackGate \/ BuildReturn

Next == MainInit \/ SiftVariables \/ Build \/ MainFinal

Spec == Init /\ [][Next]_vars

(* siftVariables entered with an order in the registry: main's state at     *)
(* l.494, but with the declared inputs installed by setVariableOrder.      *)

InitSift ==
    /\ code \in SiftNetlists
    /\ pc = "siftVariables"
    /\ ub \in (IF code \in TwoLevel THEN {"found"} ELSE Outcomes)
    /\ ret = "none"
    /\ LET C == setVariableOrder(
                   FreshContext([heap |-> Empty, uniqueTable |-> Empty,
                                 nodeTable |-> Empty, counter |-> 0, zero |-> NULL,
                                 one |-> NULL, variableOrder |-> <<>>,
                                 variableIndex |-> Empty]),
                   code.inputs)
       IN  /\ heap = C.heap /\ uniqueTable = C.uniqueTable
           /\ nodeTable = C.nodeTable /\ counter = C.counter
           /\ BDD_ZERO = C.zero /\ BDD_ONE = C.one
           /\ variableOrder = C.variableOrder /\ variableIndex = C.variableIndex
    /\ signalBDDs = Empty /\ processedSignals = {}
    /\ gi = 0 /\ progress = FALSE /\ root = NULL
    /\ si = 0 /\ sj = 0 /\ svar = "" /\ bestPosition = 0 /\ minSize = 0
    /\ originalOrder = <<>>
    /\ sifted = 0 /\ rebuilds = 0 /\ initialSize = NULL

Sift == SiftVariables \/ SiftFor \/ SiftUp \/ SiftUpMeasure \/ SiftDown
            \/ SiftDownMeasure \/ SiftPlace

NextSift == Sift \/ Build \/ MainFinal

SpecSift == InitSift /\ [][NextSift]_vars

-----------------------------------------------------------------------------
(* The store operations called directly, in one context: the state after    *)
(* parse has bound the primary inputs, then any calls on nodes of the      *)
(* store.  The static counter is capped at MaxNodes, and at MaxMade where  *)
(* makeNode is called directly too.                                        *)

MaxNodes == 7
MaxMade == 6

OpKinds == {"and", "or", "xor", "nand", "nor"}

\* The nodes of the current context: the terminals and the node table.
StoreNodes == {BDD_ZERO, BDD_ONE} \cup DOMAIN nodeTable

\* The context after parse has bound NumInputs primary inputs (no gates).
InitCalls(at) ==
    /\ code = [inputs |-> SubSeq(InputNames, 1, NumInputs), outputs |-> <<>>,
               gates |-> <<>>]
    /\ pc = at
    /\ ub = "notfound"
    /\ ret = "none"
    /\ LET r == parse(FreshContext([heap |-> Empty, uniqueTable |-> Empty,
                                    nodeTable |-> Empty, counter |-> 0,
                                    zero |-> NULL, one |-> NULL,
                                    variableOrder |-> <<>>,
                                    variableIndex |-> Empty]), code)
       IN  /\ heap = r.C.heap /\ uniqueTable = r.C.uniqueTable
           /\ nodeTable = r.C.nodeTable /\ counter = r.C.counter
           /\ BDD_ZERO = r.C.zero /\ BDD_ONE = r.C.one
           /\ variableOrder = r.C.variableOrder
           /\ variableIndex = r.C.variableIndex
           /\ signalBDDs = r.env
    /\ processedSignals = {}
    /\ gi = 0 /\ progress = FALSE /\ root = NULL
    /\ si = 0 /\ sj = 0 /\ svar = "" /\ bestPosition = 0 /\ minSize = 0
    /\ originalOrder = <<>>
    /\ sifted = 0 /\ rebuilds = 0 /\ initialSize = NULL

opsFrame == <<code, ub, ret, signalBDDs, processedSignals, gi, progress, root,
              siftVars, rebuilds, initialSize>>

\* What a direct call leaves: the store as the call changed it.
Called(r) ==
    /\ r.C.counter <= (IF pc = "store" THEN MaxMade ELSE MaxNodes)
    /\ SetCtx(r.C)
    /\ pc' = IF r.ok THEN pc ELSE "crashed"
    /\ UNCHANGED opsFrame

DoApply ==
    /\ pc \in {"ops", "store"}
    /\ \E f \in StoreNodes, g \in StoreNodes, op \in OpKinds :
          Called(apply(Ctx, f, g, op))

DoNot ==
    /\ pc \in {"ops", "store"}
    /\ \E f \in StoreNodes :
          LET r == bddNot(Ctx, f)
          IN  Called([C |-> r.C, n |-> r.n, ok |-> TRUE])

DoMakeNode ==
    /\ pc = "store"
    /\ \E v \in Range(variableOrder), l \in StoreNodes, h \in StoreNodes :
          LET r == makeNode(Ctx, v, l, h)
          IN  Called([C |-> r.C, n |-> r.n, ok |-> TRUE])

\* apply and bddNot on the nodes of the store.
InitOps == InitCalls("ops")

NextOps == DoApply \/ DoNot

SpecOps == InitOps /\ [][NextOps]_vars

\* makeNode too, with any variable and any two nodes of the store.
InitStore == InitCalls("store")

NextStore == DoMakeNode \/ DoApply \/ DoNot

SpecStore == InitStore /\ [][NextStore]_vars

-----------------------------------------------------------------------------
(* What the properties speak of: the function of a node, the value of a    *)
(* signal under direct gate simulation, and the shapes of netlists.       *)

Assignments == [Range(code.inputs) -> BOOLEAN]

\* Descend from n: the low child when the variable is 0, the high child when 1.
RECURSIVE Eval(_, _)
Eval(n, asg) ==
    IF n = BDD_ONE THEN TRUE
    ELSE IF n = BDD_ZERO \/ n \notin DOMAIN heap THEN FALSE
    ELSE IF heap[n].variable \notin DOMAIN asg THEN FALSE
    ELSE Eval(IF asg[heap[n].variable] THEN heap[n].high ELSE heap[n].low, asg)

SameFunction(n1, n2) == \A asg \in Assignments : Eval(n1, asg) = Eval(n2, asg)

GateOutputs(nl) == {nl.gates[k].output : k \in 1..Len(nl.gates)}

\* The signals that can be computed from S through the gates.
RECURSIVE Settled(_, _)
Settled(nl, S) ==
    LET T == S \cup {nl.gates[k].output : k \in
                        {m \in 1..Len(nl.gates) : Range(nl.gates[m].inputs) \subseteq S}}
    IN  IF T = S THEN S ELSE Settled(nl, T)

\* Acyclic, every gate input a primary input or a gate output, outputs distinct.
Schedulable(nl) ==
    /\ \A k, m \in 1..Len(nl.gates) : k # m => nl.gates[k].output # nl.gates[m].output
    /\ GateOutputs(nl) \cap Range(nl.inputs) = {}
    /\ \A k \in 1..Len(nl.gates) :
          Range(nl.gates[k].inputs) \subseteq Range(nl.inputs) \cup GateOutputs(nl)
    /\ GateOutputs(nl) \subseteq Settled(nl, Range(nl.inputs))

WellFormed(nl) ==
    /\ Schedulable(nl)
    /\ \A k \in 1..Len(nl.gates) :
          \/ nl.gates[k].type = "not" /\ Len(nl.gates[k].inputs) = 1
          \/ nl.gates[k].type \in BinaryKinds /\ Len(nl.gates[k].inputs) >= 2
    /\ nl.outputs # <<>>
    /\ nl.outputs[1] \in Range(nl.inputs) \cup GateOutputs(nl)

\* Two gates that read each other's output.
IsCycle(nl) ==
    /\ \A k \in 1..Len(nl.gates) :
          nl.gates[k].type \in BinaryKinds \cup {"not"} /\ nl.gates[k].inputs # <<>>
    /\ \E k, m \in 1..Len(nl.gates) :
          /\ k # m
          /\ nl.gates[k].output # nl.gates[m].output
          /\ nl.gates[k].output \in Range(nl.gates[m].inputs)
          /\ nl.gates[m].output \in Range(nl.gates[k].inputs)

RECURSIVE Sim(_, _, _)
RECURSIVE SimFold(_, _, _, _, _, _)
\* The value of a signal of a well-formed netlist under asg.
Sim(nl, sig, asg) ==
    IF sig \in Range(nl.inputs) THEN asg[sig]
    ELSE LET gate == nl.gates[CHOOSE k \in 1..Len(nl.gates) : nl.gates[k].output = sig]
         IN  IF gate.type = "not" THEN ~Sim(nl, gate.inputs[1], asg)
             ELSE SimFold(nl, Sim(nl, gate.inputs[1], asg), gate.inputs, 2,
                          gate.type, asg)

SimFold(nl, acc, inputs, k, op, asg) ==
    IF k > Len(inputs) THEN acc
    ELSE SimFold(nl, OpFunc(op, acc, Sim(nl, inputs[k], asg)), inputs, k + 1, op, asg)

\* The position of a variable in the current order.
RankOf(v) ==
    IF v \in Range(variableOrder)
    THEN (CHOOSE k \in 1..Len(variableOrder) : variableOrder[k] = v) - 1
    ELSE Len(variableOrder)

IsDecision(n) == n \in DOMAIN nodeTable

-----------------------------------------------------------------------------
(* The properties.                                                         *)

\* C1: for a well-formed netlist, when the program has built the final
\* diagram, the root is a node of the store and descending it under every
\* assignment of the primary inputs gives the value of the first declared
\* output under direct gate simulation.
C1_TruthTable ==
    (pc = "done" /\ WellFormed(code)) =>
        /\ root \in StoreNodes
        /\ \A asg \in Assignments :
              Eval(root, asg) = Sim(code, code.outputs[1], asg)

C3_Reduced ==
    pc = "store" =>
        /\ \A n \in DOMAIN nodeTable : heap[n].low # heap[n].high
        /\ \A n, m \in DOMAIN nodeTable : heap[n] = heap[m] => n = m
        /\ \A v \in Range(variableOrder), l, h \in StoreNodes :
              LET r == makeNode(Ctx, v, l, h)
              IN  /\ l = h => r.n = l /\ r.C = Ctx
                  /\ <<v, l, h>> \in DOMAIN uniqueTable =>
                        /\ r.n = uniqueTable[<<v, l, h>>]
                        /\ heap[r.n] = [variable |-> v, low |-> l, high |-> h]
                        /\ r.C = Ctx

\* C3 witness: direct makeNode calls have created nodes, one of them with a
\* child that tests the node's own variable (apply never builds that).
C3_Witness ==
    /\ pc = "store"
    /\ counter = MaxMade
    /\ \E n, m \in DOMAIN nodeTable :
          heap[n].low = m /\ heap[n].variable = heap[m].variable

\* C4: starting from the primary-input nodes, after any apply and bddNot
\* calls every decision node with a decision child has a variable of
\* strictly smaller rank than the child's variable.
C4_Ordered ==
    pc = "ops" =>
        \A n \in DOMAIN nodeTable :
            \A c \in {heap[n].low, heap[n].high} :
                IsDecision(c) => RankOf(heap[n].variable) < RankOf(heap[c].variable)

\* C4 witness: apply has built a decision node whose two children are
\* decision nodes.
C4_Witness ==
    /\ pc = "ops"
    /\ \E n \in DOMAIN nodeTable : IsDecision(heap[n].low) /\ IsDecision(heap[n].high)

\* The signal environment with every unbound input of the gate bound to Zero.
ZeroEnv(gate) ==
    [s \in DOMAIN signalBDDs \cup Range(gate.inputs) |->
        IF getSignalBDD(signalBDDs, s) = NULL THEN BDD_ZERO ELSE signalBDDs[s]]

\* C5: whenever processGates evaluates a not/and/or/xor/nand gate and binds
\* its output, the bound node is the one the gate yields with every unbound
\* input read as the Zero terminal, and it is a node of the store.
C5_MissingInputIsZero ==
    [][(/\ pc \in {"pass", "fallback"}
        /\ gi < Len(code.gates)
        /\ processedSignals' # processedSignals
        /\ code.gates[gi + 1].type \in BinaryKinds \cup {"not"}
        /\ code.gates[gi + 1].inputs # <<>>)
       => /\ signalBDDs'[code.gates[gi + 1].output] =
                evaluateGate(Ctx, ZeroEnv(code.gates[gi + 1]), code.gates[gi + 1]).n
          /\ signalBDDs'[code.gates[gi + 1].output] \in StoreNodes']_vars

\* C6: on a netlist with two gates reading each other's output the build
\* does not crash (even where the readiness test answers as intended) and,
\* when processGates is over, every gate output is bound to a node of the store.
C6_CycleSafe ==
    IsCycle(code) =>
        /\ ub = "notfound" => pc # "crashed"
        /\ pc \in {"return", "done"} =>
              \A g \in GateOutputs(code) : getSignalBDD(signalBDDs, g) \in StoreNodes

\* C7: on an acyclic netlist with driven inputs and distinct outputs (every
\* gate reading at least one signal), a pass evaluates a gate only when
\* every signal it reads has been processed.
C7_DriversFirst ==
    [][(/\ Schedulable(code)
        /\ \A k \in 1..Len(code.gates) : code.gates[k].inputs # <<>>
        /\ pc = "pass"
        /\ gi < Len(code.gates)
        /\ processedSignals' # processedSignals)
       => Range(code.gates[gi + 1].inputs) \subseteq processedSignals]_vars

\* C8: when main comes to its final build on a netlist with n >= 1 primary
\* inputs, the sifter has processed each of the n positions once.
C8_OnePass ==
    (pc \in {"final", "done"} /\ Len(code.inputs) >= 1) =>
        sifted = Len(code.inputs)

\* C9: the diagram built after siftVariables has finished is no larger than
\* the diagram of the first build, under the declaration order.
C9_SiftNoWorse ==
    pc = "done" => computeBDDSize(Ctx) <= initialSize

\* C9 witness: the sifter has gone through three positions with their
\* sweeps, and the final diagram has nodes beyond the primary inputs.
C9_Witness ==
    /\ pc = "done"
    /\ sifted = 3
    /\ rebuilds >= 7
    /\ computeBDDSize(Ctx) > Len(code.inputs) + 1

\* C10: a rebuild the sifter starts after a swap builds under the swapped
\* order: parse leaves variableOrder as the swap left it, with the ranks of
\* that order.
C10_RebuildKeepsOrder ==
    [][(pc = "parse" /\ ret \in {"sift_up_measure", "sift_down_measure"})
       => /\ variableOrder' = variableOrder
          /\ \A k \in 1..Len(variableOrder) :
                getVariableIndex(Ctx', variableOrder[k]) = k - 1]_vars

=============================================================================
